---- MODULE Spec2Model ----
(***************************************************************************)
(* PRD Ticket Assistant (src/app.py): a stateless Flask handler that       *)
(* composes a prompt from the submitted form, calls the generative model,  *)
(* parses the reply and renders the next form.                             *)
(*                                                                         *)
(* Text is a sequence of tokens.  A token is one character or one lexeme   *)
(* that the code treats as a unit ("json", a JSON key with its colon, a    *)
(* literal of an f-string).  Concatenation of text is \o.                  *)
(***************************************************************************)
EXTENDS Integers, Sequences, FiniteSets, TLC

\* ------------------------------------------------------------------ bounds
\* Longest list of clarifying questions a reply or a submitted form carries.
MaxQuestions == 2

\* ------------------------------------------------------------ text helpers
RECURSIVE Flatten(_)
Flatten(ss) == IF ss = <<>> THEN <<>> ELSE Head(ss) \o Flatten(Tail(ss))

\* Sequences over S of length 0..n.
SeqUpTo(S, n) == UNION {[1..k -> S] : k \in 0..n}

\* Whether pat occurs in text as a contiguous run of tokens.
Contains(text, pat) ==
    \E k \in 0..(Len(text) - Len(pat)) : SubSeq(text, k + 1, k + Len(pat)) = pat

\* ------------------------------------------------- literals of the handler
PROMPT_STORY == <<"User Story: ">>
PROMPT_CONTEXT == <<"\n\nContext/Brain Dump:\n">>
BLOCK_QUESTION == <<"\n\nQuestion: ">>
BLOCK_ANSWER == <<"\nAnswer: ">>
ANSWERS_HEADER == <<"\n\n--- User's Answers to Previous Questions ---">>
ERROR_PREFIX == <<"An error occurred: ">>
NOT_CONFIGURED == <<"API Key not configured.">>
PREVIEW_ERROR_OPEN == <<"<p class='error'>Error: ">>
PREVIEW_ERROR_CLOSE == <<"</p>">>

\* ------------------------------------------------------------- form fields
\* f"question_{i}" and f"answer_{i}": a field name is a pair (stem, index);
\* the fixed fields carry index -1.
user_story_field == <<"user_story", -1>>
context_field == <<"context", -1>>
previous_context_field == <<"previous_context", -1>>
question_field(i) == <<"question_", i>>
answer_field(i) == <<"answer_", i>>

\* ------------------------------------------------------------ Python values
\* A value json.loads can return, or a value of a dict it returns:
\* t is its type, d the dict's items, s the string's text, l the list's items.
Dict(items) == [t |-> "dict", d |-> items, s |-> <<>>, l |-> <<>>]
StrVal(text) == [t |-> "str", d |-> <<>>, s |-> text, l |-> <<>>]
ListVal(items) == [t |-> "list", d |-> <<>>, s |-> <<>>, l |-> items]
NullVal == [t |-> "null", d |-> <<>>, s |-> <<>>, l |-> <<>>]

\* dict.get(key, default)
dict_get(dict, key, default) == IF key \in DOMAIN dict.d THEN dict.d[key] ELSE default

\* bool(value) of a str, list, dict or None
truthy(value) ==
    CASE value.t = "str" -> value.s # <<>>
      [] value.t = "list" -> value.l # <<>>
      [] value.t = "dict" -> DOMAIN value.d # {}
      [] OTHER -> FALSE

\* ------------------------------------------------------------------ tokens
\* The grave accent, U+0060 (the character itself cannot stand in a TLA+ string).
BACKTICK == "GRAVE"
QUOTE == "\""
NEWLINE == "\n"
WHITESPACE == {" ", NEWLINE}
FENCE == <<BACKTICK, BACKTICK, BACKTICK>>
FENCE_JSON == <<BACKTICK, BACKTICK, BACKTICK, "json">>

JsonKeys == {"ticket_draft", "clarifying_questions", "open_questions", "error"}
\* The lexeme "key": of an object member.
KeyToken(key) ==
    CASE key = "ticket_draft" -> "\"ticket_draft\":"
      [] key = "clarifying_questions" -> "\"clarifying_questions\":"
      [] key = "open_questions" -> "\"open_questions\":"
      [] key = "error" -> "\"error\":"
KeyTokens == {KeyToken(key) : key \in JsonKeys}
KeyOfToken(tok) == CHOOSE key \in JsonKeys : KeyToken(key) = tok

\* ------------------------------------------------------------ str methods
\* str.strip(): leading and trailing whitespace removed.
RECURSIVE lstrip(_)
lstrip(text) ==
    IF text # <<>> /\ Head(text) \in WHITESPACE THEN lstrip(Tail(text)) ELSE text
RECURSIVE rstrip(_)
rstrip(text) ==
    IF text # <<>> /\ text[Len(text)] \in WHITESPACE
    THEN rstrip(SubSeq(text, 1, Len(text) - 1))
    ELSE text
strip(text) == rstrip(lstrip(text))

\* str.replace(old, ""): every leftmost non-overlapping occurrence removed.
RECURSIVE replace_with_empty(_, _)
replace_with_empty(text, old) ==
    IF Len(text) < Len(old) THEN text
    ELSE IF SubSeq(text, 1, Len(old)) = old
         THEN replace_with_empty(SubSeq(text, Len(old) + 1, Len(text)), old)
         ELSE <<Head(text)>> \o replace_with_empty(Tail(text), old)

\* ---------------------------------------------------------------- json.loads
ParseFail == [ok |-> FALSE, v |-> NullVal, next |-> 0]
ParseOk(value, next) == [ok |-> TRUE, v |-> value, next |-> next]

RECURSIVE skip_whitespace(_, _)
skip_whitespace(text, i) ==
    IF i <= Len(text) /\ text[i] \in WHITESPACE THEN skip_whitespace(text, i + 1) ELSE i

\* The index of the quote closing a string whose content starts at j; 0 when
\* the string is unterminated or holds a raw line break.
RECURSIVE string_end(_, _)
string_end(text, j) ==
    IF j > Len(text) THEN 0
    ELSE IF text[j] = QUOTE THEN j
    ELSE IF text[j] = NEWLINE THEN 0
    ELSE string_end(text, j + 1)

parse_string(text, i) ==
    LET j == string_end(text, i + 1)
    IN IF j = 0 THEN ParseFail ELSE ParseOk(StrVal(SubSeq(text, i + 1, j - 1)), j + 1)

\* After "[": strings up to "]".
RECURSIVE parse_array(_, _, _)
parse_array(text, i, acc) ==
    IF i > Len(text) THEN ParseFail
    ELSE IF text[i] \in WHITESPACE THEN parse_array(text, i + 1, acc)
    ELSE IF text[i] = "]" THEN ParseOk(ListVal(acc), i + 1)
    ELSE IF text[i] = QUOTE
         THEN LET str == parse_string(text, i)
              IN IF str.ok THEN parse_array(text, str.next, Append(acc, str.v.s))
                 ELSE ParseFail
    ELSE ParseFail

\* A string, a list of strings or null, at i.
parse_scalar(text, i) ==
    IF i > Len(text) THEN ParseFail
    ELSE IF text[i] = QUOTE THEN parse_string(text, i)
    ELSE IF text[i] = "[" THEN parse_array(text, i + 1, <<>>)
    ELSE IF text[i] = "null" THEN ParseOk(NullVal, i + 1)
    ELSE ParseFail

\* After "{": members up to "}"; a repeated key keeps its last value.
RECURSIVE parse_object(_, _, _)
parse_object(text, i, acc) ==
    IF i > Len(text) THEN ParseFail
    ELSE IF text[i] \in WHITESPACE THEN parse_object(text, i + 1, acc)
    ELSE IF text[i] = "}" THEN ParseOk(Dict(acc), i + 1)
    ELSE IF text[i] \in KeyTokens
         THEN LET member == parse_scalar(text, skip_whitespace(text, i + 1))
              IN IF member.ok
                 THEN parse_object(text, member.next,
                                   (KeyOfToken(text[i]) :> member.v) @@ acc)
                 ELSE ParseFail
    ELSE ParseFail

\* json.loads(text): ok and the value, or not ok (json.JSONDecodeError).
json_loads(text) ==
    LET i == skip_whitespace(text, 1)
        parsed == IF i > Len(text) THEN ParseFail
                  ELSE IF text[i] = "{" THEN parse_object(text, i + 1, <<>>)
                  ELSE parse_scalar(text, i)
    IN IF parsed.ok /\ skip_whitespace(text, parsed.next) > Len(text)
       THEN parsed
       ELSE ParseFail
JSON_DECODE_ERROR == <<"Expecting value">>


\* Mutant: os.environ.get in place of os.environ[...], so that a missing
\* credential no longer raises and a model object is built all the same.
configure_without_keyerror(credential) == "GenerativeModel"

\* ----------------------------------------------------------------- startup
\* The module-level try/except: os.environ["GOOGLE_API_KEY"] raises KeyError
\* when the credential is absent, and model is then None.
configure(credential) == IF credential THEN "GenerativeModel" ELSE "None"

\* `not model`
not_model(m) == m = "None"

\* ------------------------------------------------- the capability's behaviour
\* What model.generate_content does in one call: it raises (msg is str(e)) or
\* returns text.  wrapper and r record how a returned text was built.
NoOutcome == [kind |-> "none", msg |-> <<>>, text |-> <<>>, wrapper |-> "none", r |-> <<>>]
Raises(msg) == [kind |-> "raise", msg |-> msg, text |-> <<>>, wrapper |-> "none", r |-> <<>>]
Returns(text, wrapper, r) ==
    [kind |-> "text", msg |-> <<>>, text |-> text, wrapper |-> wrapper, r |-> r]


\* Mutant: the second replace forgotten, so that only "```json" is removed.
cleaned_response_json_tag_only(text) == replace_with_empty(strip(text), FENCE_JSON)

\* ---------------------------------------------------------- get_ai_analysis
\* response.text.strip().replace("```json", "").replace("```", "")
cleaned_response(text) ==
    replace_with_empty(replace_with_empty(strip(text), FENCE_JSON), FENCE)

error_dict(message) == Dict("error" :> StrVal(message))


\* Mutant: no try/except around the call and json.loads.
get_ai_analysis_without_except(m, prompt, outcome) ==
    IF not_model(m) THEN [raised |-> FALSE, value |-> error_dict(NOT_CONFIGURED)]
    ELSE IF outcome.kind = "raise" THEN [raised |-> TRUE, value |-> NullVal]
    ELSE [raised |-> ~json_loads(cleaned_response(outcome.text)).ok,
          value |-> json_loads(cleaned_response(outcome.text)).v]

\* raised: an exception leaves the function; value: what it returns.
get_ai_analysis(m, prompt, outcome) ==
    IF not_model(m) THEN [raised |-> FALSE, value |-> error_dict(NOT_CONFIGURED)]
    ELSE IF outcome.kind = "raise"
         THEN [raised |-> FALSE, value |-> error_dict(ERROR_PREFIX \o outcome.msg)]
    ELSE LET parsed == json_loads(cleaned_response(outcome.text))
         IN IF parsed.ok
            THEN [raised |-> FALSE, value |-> parsed.v]
            ELSE [raised |-> FALSE,
                  value |-> error_dict(ERROR_PREFIX \o JSON_DECODE_ERROR)]

\* ------------------------------------------------------- composing the prompt
base_prompt(user_story, context) ==
    PROMPT_STORY \o user_story \o PROMPT_CONTEXT \o context

\* One pass of the while loop's body: what it adds to answers_text.
answer_block(question, answer) ==
    IF answer # <<>>
    THEN BLOCK_QUESTION \o question \o BLOCK_ANSWER \o answer
    ELSE <<>>

\* The while loop from i on: raised when request.form[f"answer_{i}"] is a
\* missing key (werkzeug's BadRequestKeyError), else the text it appended.
RECURSIVE answers_scan(_, _)
answers_scan(form, i) ==
    IF question_field(i) \notin DOMAIN form THEN [raised |-> FALSE, text |-> <<>>]
    ELSE IF answer_field(i) \notin DOMAIN form THEN [raised |-> TRUE, text |-> <<>>]
    ELSE LET rest == answers_scan(form, i + 1)
         IN [raised |-> rest.raised,
             text |-> answer_block(form[question_field(i)], form[answer_field(i)])
                      \o rest.text]


\* Mutant: the header appended without the `if answers_text:` test.
append_answers_unconditionally(prompt, answers_text) ==
    prompt \o ANSWERS_HEADER \o answers_text

\* if answers_text: prompt += header + answers_text
append_answers(prompt, answers_text) ==
    IF answers_text # <<>> THEN prompt \o ANSWERS_HEADER \o answers_text ELSE prompt

\* --------------------------------------------------------------- rendering
\* markdown.markdown(text): the draft as display markup (an external renderer).
markdown(text) == IF strip(text) = <<>> THEN <<>> ELSE <<"<p>">> \o text \o <<"</p>">>

\* Jinja's autoescape of {{ value }}.
escape_token(c) ==
    CASE c = "&" -> "&amp;"
      [] c = "<" -> "&lt;"
      [] c = ">" -> "&gt;"
      [] c = "'" -> "&#39;"
      [] c = QUOTE -> "&#34;"
      [] OTHER -> c
escape(text) == [k \in 1..Len(text) |-> escape_token(text[k])]

\* {% for q in clarifying_questions %}: the items the loop visits (a str is
\* visited character by character).
loop_items(value) ==
    CASE value.t = "list" -> value.l
      [] value.t = "str" -> [k \in 1..Len(value.s) |-> <<value.s[k]>>]
      [] OTHER -> <<>>
\* (The values of a parsed dict are strings, lists of strings and null.)
iterable(value) == value.t \in {"list", "str"}


\* Mutant: loop.index (from 1) in place of loop.index0.
question_inputs_from_one(items) ==
    [f \in {question_field(k) : k \in 1..Len(items)} |-> escape(items[f[2]])]

\* The hidden inputs name="question_{{ loop.index0 }}" value="{{ q }}".
question_inputs(items) ==
    [f \in {question_field(k - 1) : k \in 1..Len(items)} |-> escape(items[f[2] + 1])]

BlankView ==
    [api_key_error |-> <<>>, user_story |-> <<>>, context |-> <<>>,
     preview_html |-> <<>>, clarifying_questions |-> ListVal(<<>>)]

NoHtml == [api_key_error |-> <<>>, fields |-> <<>>, answer_inputs |-> 0,
           preview_html |-> <<>>]


\* Mutant: the hidden question inputs left out of the form.
render_template_string_without_questions(view) ==
    [api_key_error |-> escape(view.api_key_error),
     fields |-> (user_story_field :> escape(view.user_story))
                @@ (context_field :> escape(view.context))
                @@ (previous_context_field :> escape(view.context)),
     answer_inputs |-> IF truthy(view.clarifying_questions)
                       THEN Len(loop_items(view.clarifying_questions)) ELSE 0,
     preview_html |-> view.preview_html]

\* render_template_string(HTML_TEMPLATE, **view): the error line, the form's
\* prefilled and hidden fields as written into the markup, the number of
\* answer inputs, and the preview (marked safe, so not escaped).
render_template_string(view) ==
    LET items == loop_items(view.clarifying_questions)
    IN [api_key_error |-> escape(view.api_key_error),
        fields |-> (user_story_field :> escape(view.user_story))
                   @@ (context_field :> escape(view.context))
                   @@ (previous_context_field :> escape(view.context))
                   @@ question_inputs(items),
        answer_inputs |-> IF truthy(view.clarifying_questions) THEN Len(items) ELSE 0,
        preview_html |-> view.preview_html]

\* ------------------------------------------------------------------- index
\* What one request does: the HTTP status and page sent back, whether the
\* capability was called, the prompt, the analysis and the view data.
\* result names the path taken.
Response(status, html, called, prompt, analysis, view, result) ==
    [status |-> status, html |-> html, called |-> called, prompt |-> prompt,
     analysis |-> analysis, view |-> view, result |-> result]

\* An exception leaves index: werkzeug's BadRequestKeyError is answered 400,
\* any other exception 500; no page of the application is rendered.
Abort(status, called, prompt, analysis) ==
    Response(status, NoHtml, called, prompt, analysis, BlankView,
             IF status = 400 THEN "BadRequest" ELSE "ServerError")

\* return render_template_string(HTML_TEMPLATE, **view_data)
Render(called, prompt, analysis, view, result) ==
    Response(200, render_template_string(view), called, prompt, analysis, view, result)

\* Lines 175-186: from the analysis to the page.
index_show(form, called, prompt, analysis) ==
    \* "error" in analysis, then analysis['error'] or analysis.get: TypeError or
    \* AttributeError unless analysis is a dict.
    IF analysis.t # "dict" THEN Abort(500, called, prompt, analysis)
    ELSE IF "error" \in DOMAIN analysis.d
    THEN Render(called, prompt, analysis,
                [BlankView EXCEPT
                   !.preview_html = PREVIEW_ERROR_OPEN \o analysis.d["error"].s
                                    \o PREVIEW_ERROR_CLOSE,
                   !.user_story = form[user_story_field],
                   !.context = form[context_field]],
                "ModelInteractionError")
    \* markdown.markdown of a value that is no str, and a for loop over a value
    \* that is not iterable, raise.
    ELSE IF \/ dict_get(analysis, "ticket_draft", StrVal(<<>>)).t # "str"
            \/ ~iterable(dict_get(analysis, "clarifying_questions", ListVal(<<>>)))
    THEN Abort(500, called, prompt, analysis)
    ELSE Render(called, prompt, analysis,
                [BlankView EXCEPT
                   !.preview_html =
                       markdown(dict_get(analysis, "ticket_draft", StrVal(<<>>)).s),
                   !.clarifying_questions =
                       dict_get(analysis, "clarifying_questions", ListVal(<<>>)),
                   !.user_story = form[user_story_field],
                   !.context = form[context_field]],
                "AssistantReply")

\* Line 173: analysis = get_ai_analysis(prompt)
index_analyse(m, form, prompt, got) ==
    IF got.raised THEN Abort(500, ~not_model(m), prompt, NullVal)
    ELSE index_show(form, ~not_model(m), prompt, got.value)

\* Lines 157-170: the prompt, given what the while loop did.
index_compose(m, form, outcome, scan) ==
    IF scan.raised THEN Abort(400, FALSE, <<>>, NullVal)
    ELSE index_analyse(m, form,
             append_answers(base_prompt(form[user_story_field], form[context_field]),
                            scan.text),
             get_ai_analysis(m,
                 append_answers(base_prompt(form[user_story_field], form[context_field]),
                                scan.text),
                 outcome))

\* Lines 152-186: request.form['user_story'] and request.form['context'] raise
\* BadRequestKeyError when the field is missing.
index_post(m, form, outcome) ==
    IF ~({user_story_field, context_field} \subseteq DOMAIN form)
    THEN Abort(400, FALSE, <<>>, NullVal)
    ELSE index_compose(m, form, outcome, answers_scan(form, 0))

index(m, method, form, outcome) ==
    IF not_model(m)
    THEN Render(FALSE, <<>>, NullVal,
                [BlankView EXCEPT
                   !.api_key_error = <<"ERROR: GOOGLE_API_KEY is not set.">>],
                "ConfigurationError")
    ELSE IF method = "POST" THEN index_post(m, form, outcome)
    ELSE Render(FALSE, <<>>, NullVal, BlankView, "Blank")

\* ------------------------------------------------------------- the browser
\* The character references of an attribute value or a textarea, decoded.
unescape_token(c) ==
    CASE c = "&amp;" -> "&"
      [] c = "&lt;" -> "<"
      [] c = "&gt;" -> ">"
      [] c = "&#39;" -> "'"
      [] c = "&#34;" -> QUOTE
      [] OTHER -> c
unescape(text) == [k \in 1..Len(text) |-> unescape_token(text[k])]

\* The hidden inputs of the page's form, as the browser submits them.
hidden_fields(html) ==
    [f \in DOMAIN html.fields \ {user_story_field, context_field} |->
        unescape(html.fields[f])]

\* The text inputs answer_0 .. answer_(n-1) of the page's form.
answer_inputs(html) == {answer_field(k) : k \in 0..(html.answer_inputs - 1)}

\* ------------------------------------------------------------------ inputs
Stories == {<<"S1">>, <<"S2">>}
Contexts == {<<>>, <<"C1">>}
\* What the user types into the two fields of the page's form.
Typed == {[user_story |-> <<"S1">>, context |-> <<>>],
          [user_story |-> <<"S2">>, context |-> <<"C1">>]}
Answers == {<<>>, <<"A1">>}
Questions == {<<"Q1?">>, <<"Q2", "&", "?">>}
QuestionLists == SeqUpTo(Questions, MaxQuestions)

\* What the capability may return: JSON texts, bare or wrapped, and other text.
ser_string(text) == <<QUOTE>> \o text \o <<QUOTE>>
ser_value(value) ==
    CASE value.t = "str" -> ser_string(value.s)
      [] value.t = "list" ->
            <<"[">> \o Flatten([k \in 1..Len(value.l) |-> ser_string(value.l[k])])
            \o <<"]">>
      [] OTHER -> <<"null">>
KeyOrder == <<"ticket_draft", "clarifying_questions", "open_questions", "error">>
ser_object(items) ==
    <<"{">>
    \o Flatten([k \in 1..Len(KeyOrder) |->
                  IF KeyOrder[k] \in DOMAIN items
                  THEN <<KeyToken(KeyOrder[k])>> \o ser_value(items[KeyOrder[k]])
                  ELSE <<>>])
    \o <<"}">>

Absent == [t |-> "absent", d |-> <<>>, s |-> <<>>, l |-> <<>>]
Present(choice) == [k \in {k \in DOMAIN choice : choice[k].t # "absent"} |-> choice[k]]
DraftValues == {StrVal(<<"x">>), StrVal(<<"a", BACKTICK, BACKTICK, BACKTICK, "b">>), NullVal}
QuestionValues == {ListVal(l) : l \in QuestionLists} \cup {NullVal}
OpenValues == {ListVal(<<>>), ListVal(<< <<"O1">> >>)}
ErrorValues == {StrVal(<<"quota">>)}
JsonObjects ==
    {Present(("ticket_draft" :> a) @@ ("clarifying_questions" :> b)
             @@ ("open_questions" :> c) @@ ("error" :> e)) :
        a \in DraftValues \cup {Absent}, b \in QuestionValues \cup {Absent},
        c \in OpenValues \cup {Absent}, e \in ErrorValues \cup {Absent}}
JsonTexts ==
    {ser_object(items) : items \in JsonObjects}
    \cup {<<"[", "]">>, <<"null">>, ser_string(<<"hi">>)}
NotJsonTexts == {<<>>, <<"{">>, <<"Sorry">>}

Wrappers == {"none", "padded", "fence", "fence_json", "fence_JSON"}
Wrap(wrapper, r) ==
    CASE wrapper = "padded" -> <<" ">> \o r \o <<NEWLINE>>
      [] wrapper = "fence" -> FENCE \o <<NEWLINE>> \o r \o <<NEWLINE>> \o FENCE
      [] wrapper = "fence_json" ->
            FENCE \o <<"json", NEWLINE>> \o r \o <<NEWLINE>> \o FENCE \o <<NEWLINE>>
      [] wrapper = "fence_JSON" ->
            FENCE \o <<"JSON", NEWLINE>> \o r \o <<NEWLINE>> \o FENCE
      [] OTHER -> r

Exceptions == {<<"503 timeout">>}
AllOutcomes ==
    {Raises(msg) : msg \in Exceptions}
    \cup {Returns(Wrap(w, r), w, r) : w \in Wrappers, r \in JsonTexts}
    \cup {Returns(g, "none", g) : g \in NotJsonTexts}
\* The replies of a conversation: a draft and a list of questions.
ReplyText(questions) ==
    ser_object(("ticket_draft" :> StrVal(<<"x">>))
               @@ ("clarifying_questions" :> ListVal(questions))
               @@ ("open_questions" :> ListVal(<<>>)))
\* The question lists of a conversation's replies: no question twice in a row.
ReplyLists ==
    {l \in QuestionLists : \A k \in 1..(Len(l) - 1) : l[k] # l[k + 1]}
TurnOutcomes ==
    {Raises(msg) : msg \in Exceptions}
    \cup {Returns(ReplyText(l), "none", ReplyText(l)) : l \in ReplyLists}
    \cup {Returns(<<>>, "none", <<>>)}

\* The forms a client other than the page's own form may post: the prior
\* questions 0..n-1, and an answer for some of them.
FormOf(user_story, context, questions, answers) ==
    (user_story_field :> user_story) @@ (context_field :> context)
    @@ [f \in {question_field(k - 1) : k \in 1..Len(questions)} |-> questions[f[2] + 1]]
    @@ answers
DirectForms ==
    {<<>>}
    \cup UNION {UNION {{FormOf(us, cx, qs, an) :
                          an \in [{answer_field(k) : k \in present} -> Answers],
                          us \in Stories, cx \in Contexts} :
                       present \in SUBSET (0..(Len(qs) - 1))} :
                qs \in QuestionLists}
FirstTurnForms == {FormOf(<<"S1">>, cx, <<>>, <<>>) : cx \in Contexts}

\* ------------------------------------------------------------------- state
VARIABLES
    credential,  \* whether GOOGLE_API_KEY is set in the process's environment
    model,       \* the module-level model: "GenerativeModel" or "None"
    page,        \* the last response, as the browser holds it
    last         \* the last request the handler served, and what it did
vars == <<credential, model, page, last>>

NoPage == [status |-> 0, html |-> NoHtml]
NoRequest ==
    [via |-> "none", method |-> "none", form |-> <<>>, outcome |-> NoOutcome,
     status |-> 0, called |-> FALSE, prompt |-> <<>>, analysis |-> NullVal,
     view |-> BlankView, result |-> "none",
     prev_result |-> "none", prev_questions |-> <<>>, earlier |-> {}]

Init ==
    /\ credential \in BOOLEAN
    /\ model = configure(credential)
    /\ page = NoPage
    /\ last = NoRequest

\* One request served from start to end.  prev_result (the path the turn
\* before took), prev_questions (its reply's clarifying questions) and earlier
\* (the answers given so far in a run of successful turns with the story and
\* the context unedited) are history kept for the properties; the handler
\* does not read them.
Deliver(resp, via, method, form, outcome, prev_result, prev_questions, earlier) ==
    /\ page' = [status |-> resp.status, html |-> resp.html]
    /\ last' = [via |-> via, method |-> method, form |-> form,
                outcome |-> IF resp.called THEN outcome ELSE NoOutcome,
                status |-> resp.status, called |-> resp.called,
                prompt |-> resp.prompt, analysis |-> resp.analysis,
                view |-> resp.view, result |-> resp.result,
                prev_result |-> prev_result, prev_questions |-> prev_questions,
                earlier |-> earlier]
    /\ UNCHANGED <<credential, model>>
Serve(via, method, form, outcome, prev_result, prev_questions, earlier) ==
    Deliver(index(model, method, form, outcome), via, method, form, outcome,
            prev_result, prev_questions, earlier)

\* The non-empty answers a form carries.
GivenAnswers(form) ==
    {form[f] : f \in {g \in DOMAIN form : g[1] = "answer_" /\ form[g] # <<>>}}

\* The clarifying questions of the reply a turn produced.
ReplyQuestions(turn) ==
    IF turn.result = "AssistantReply"
    THEN loop_items(dict_get(turn.analysis, "clarifying_questions", ListVal(<<>>)))
    ELSE <<>>

\* The browser opens the page.
Get == Serve("browser", "GET", <<>>, NoOutcome, "none", <<>>, {})

\* The user fills in the form of the page shown and submits it.
BrowserSubmit ==
    /\ page.status = 200
    /\ \E typed \in Typed,
          answers \in [answer_inputs(page.html) -> Answers],
          outcome \in TurnOutcomes :
          LET form == (user_story_field :> typed.user_story)
                      @@ (context_field :> typed.context)
                      @@ hidden_fields(page.html) @@ answers
              unedited == /\ last.result = "AssistantReply"
                          /\ {user_story_field, context_field} \subseteq DOMAIN last.form
                          /\ last.form[user_story_field] = typed.user_story
                          /\ last.form[context_field] = typed.context
          IN Serve("browser", "POST", form, outcome, last.result, ReplyQuestions(last),
                   IF unedited THEN last.earlier \cup GivenAnswers(last.form) ELSE {})

\* Any other client posts a form.  The handler keeps nothing between requests
\* (model is only read), so such a post is explored as the first request.
DirectPost ==
    /\ last.via = "none"
    /\ \E form \in DirectForms, outcome \in TurnOutcomes :
           Serve("direct", "POST", form, outcome, "none", <<>>, {})

Next == Get \/ BrowserSubmit \/ DirectPost
Spec == Init /\ [][Next]_vars

\* A first turn, over everything the capability may do.
InterpretPost ==
    /\ last.via = "none"
    /\ \E form \in FirstTurnForms, outcome \in AllOutcomes :
           Serve("direct", "POST", form, outcome, "none", <<>>, {})

\* The same requests, of a process started with the credential set.
InitConfigured == Init /\ credential = TRUE
SpecConfigured == InitConfigured /\ [][Next]_vars

NextInterp == Get \/ InterpretPost
SpecInterp == Init /\ [][NextInterp]_vars

\* -------------------------------------------------------------- properties
IsPost == last.method = "POST"
HasStoryAndContext(form) == {user_story_field, context_field} \subseteq DOMAIN form

\* The number of prior questions the scan visits: the first i with no question_i.
RECURSIVE ScanLength(_, _)
ScanLength(form, i) ==
    IF question_field(i) \in DOMAIN form THEN ScanLength(form, i + 1) ELSE i
PriorQuestions(form) ==
    [k \in 1..ScanLength(form, 0) |-> form[question_field(k - 1)]]
Answered(form, i) == answer_field(i) \in DOMAIN form /\ form[answer_field(i)] # <<>>
\* The Question/Answer blocks of the answered indices, in increasing order.
ExpectedBlocks(form) ==
    Flatten([k \in 1..ScanLength(form, 0) |->
               IF Answered(form, k - 1)
               THEN BLOCK_QUESTION \o form[question_field(k - 1)]
                    \o BLOCK_ANSWER \o form[answer_field(k - 1)]
               ELSE <<>>])
BaseOf(form) == base_prompt(form[user_story_field], form[context_field])
\* What the prompt holds after the story and the context.
AnswerSection(prompt, form) == SubSeq(prompt, Len(BaseOf(form)) + 1, Len(prompt))

\* C1: with the credential absent at process start, every request, GET or
\* POST, whatever its form and however many came before, is answered with the
\* configuration error, and the capability is not called.
C1_ConfigurationErrorOnEveryRequest ==
    (~credential /\ last.method # "none") =>
        /\ last.result = "ConfigurationError"
        /\ page.status = 200
        /\ page.html.api_key_error = <<"ERROR: GOOGLE_API_KEY is not set.">>
        /\ ~last.called
        /\ last.outcome = NoOutcome
C1_Witness ==
    /\ ~credential
    /\ IsPost
    /\ last.via = "browser"
    /\ last.prev_result = "ConfigurationError"
    /\ last.result = "ConfigurationError"

\* The message of the failure of a call: str(e).
Failed(outcome) ==
    \/ outcome.kind = "raise"
    \/ outcome.kind = "text" /\ ~json_loads(cleaned_response(outcome.text)).ok
FailureMessage(outcome) ==
    IF outcome.kind = "raise" THEN outcome.msg ELSE JSON_DECODE_ERROR

\* C2: a POST turn whose capability call raises, or whose returned text does
\* not parse as JSON, ends in a ModelInteractionError that carries the
\* underlying message; no draft and no questions are emitted, and no
\* exception leaves the request.
C2_FailureBecomesModelInteractionError ==
    (IsPost /\ last.called /\ Failed(last.outcome)) =>
        /\ last.status = 200
        /\ last.result = "ModelInteractionError"
        /\ last.analysis = error_dict(ERROR_PREFIX \o FailureMessage(last.outcome))
        /\ page.html.preview_html =
               PREVIEW_ERROR_OPEN \o ERROR_PREFIX \o FailureMessage(last.outcome)
               \o PREVIEW_ERROR_CLOSE
        /\ last.view.clarifying_questions = ListVal(<<>>)
        /\ page.html.answer_inputs = 0
        /\ question_field(0) \notin DOMAIN page.html.fields
C2_Witness ==
    /\ IsPost
    /\ last.called
    /\ last.outcome.kind = "raise"
    /\ last.result = "ModelInteractionError"
    /\ Contains(page.html.preview_html, last.outcome.msg)

\* C3: for prior questions 0..n-1 and any answer mapping, the prompt's answer
\* section holds a block for index i exactly when answers[i] is present and
\* non-empty, in increasing order, and an empty or absent answer never makes
\* the request fail.
C3_AnswerSectionAndNoFailure ==
    (IsPost /\ credential /\ HasStoryAndContext(last.form)) =>
        /\ last.status # 400
        /\ AnswerSection(last.prompt, last.form) =
               IF ExpectedBlocks(last.form) = <<>> THEN <<>>
               ELSE ANSWERS_HEADER \o ExpectedBlocks(last.form)

\* The reply a parsed value stands for: each key's value, or its default.
ReplyDraft(value) == dict_get(value, "ticket_draft", StrVal(<<>>))
ReplyClarifying(value) == dict_get(value, "clarifying_questions", ListVal(<<>>))

\* C4: whenever the returned text is valid JSON the turn is no error: it
\* yields a reply whose fields are the returned values or their defaults, and
\* no exception escapes.
C4_ValidJsonIsNeverAnError ==
    (IsPost /\ last.called /\ last.outcome.kind = "text"
       /\ json_loads(last.outcome.text).ok) =>
        /\ last.status = 200
        /\ last.result = "AssistantReply"
        /\ last.view.clarifying_questions =
               ReplyClarifying(json_loads(last.outcome.text).v)
        /\ last.view.preview_html =
               markdown(ReplyDraft(json_loads(last.outcome.text).v).s)

\* C5: after a successful reply the conversation is AwaitingAnswers exactly
\* when the reply's clarifying questions are non-empty, and the next turn the
\* page submits then carries prior questions; it is Converged exactly when
\* they are empty, and the next turn then carries none and is composed as a
\* first turn.
C5_StateMachine ==
    (IsPost /\ last.via = "browser" /\ last.prev_result = "AssistantReply") =>
        /\ (question_field(0) \in DOMAIN last.form) <=> (last.prev_questions # <<>>)
        /\ (last.prev_questions = <<>>) => (last.prompt = BaseOf(last.form))
        /\ (last.result = "AssistantReply") =>
               ((page.html.answer_inputs > 0) <=> (ReplyQuestions(last) # <<>>))
C5_Witness ==
    /\ IsPost
    /\ last.via = "browser"
    /\ last.prev_result = "AssistantReply"
    /\ last.prev_questions # <<>>
    /\ question_field(0) \in DOMAIN last.form
    /\ last.result = "AssistantReply"
    /\ ReplyQuestions(last) = <<>>

AllAnswersEmpty(form) ==
    \A k \in 0..(ScanLength(form, 0) - 1) :
        answer_field(k) \in DOMAIN form /\ form[answer_field(k)] = <<>>
SomeAnswerGiven(form) == \E k \in 0..(ScanLength(form, 0) - 1) : Answered(form, k)

\* C6: with all answers empty the prompt is the prompt of a turn without
\* prior questions, 'User Story: ' + story + '\n\nContext/Brain Dump:\n' +
\* context; the story and the context stand in every prompt verbatim; and the
\* separator header is there exactly when an answer block was appended.
C6_EmptyAnswersComposeAsFirstTurn ==
    (IsPost /\ credential /\ last.status # 400) =>
        /\ AllAnswersEmpty(last.form) =>
               last.prompt = PROMPT_STORY \o last.form[user_story_field]
                             \o PROMPT_CONTEXT \o last.form[context_field]
        /\ SubSeq(last.prompt, 1, Len(BaseOf(last.form))) = BaseOf(last.form)
        /\ Contains(last.prompt, ANSWERS_HEADER) <=> SomeAnswerGiven(last.form)
C6_Witness ==
    /\ IsPost
    /\ credential
    /\ last.status = 200
    /\ ScanLength(last.form, 0) = 2
    /\ AllAnswersEmpty(last.form)
    /\ last.prompt = BaseOf(last.form)

\* What get_ai_analysis returns for a text.
ResultOn(text) == get_ai_analysis(model, last.prompt, Returns(text, "none", text)).value
\* The same with the text parsed as it came, no fence stripped.
ResultUnstripped(text) ==
    IF json_loads(text).ok THEN json_loads(text).v
    ELSE error_dict(ERROR_PREFIX \o JSON_DECODE_ERROR)
FenceFreeParsesAlike ==
    (IsPost /\ last.called /\ last.outcome.kind = "text"
       /\ ~Contains(last.outcome.text, FENCE)) =>
        last.analysis = ResultUnstripped(last.outcome.text)

\* C7 as stated: the result on a JSON text r wrapped in a code fence, the
\* opening fence with or without a language tag, is the result on r alone;
\* and a response without a code fence parses the same stripped or not.
C7_AnyFenceIsStripped ==
    /\ (IsPost /\ last.called /\ last.outcome.kind = "text"
          /\ last.outcome.wrapper \in {"fence", "fence_json", "fence_JSON"}) =>
           last.analysis = ResultOn(last.outcome.r)
    /\ FenceFreeParsesAlike

\* C7 amended: the result on a JSON text r wrapped in a code fence whose
\* opening is bare or carries the tag json is the result on r alone; and a
\* response without a code fence parses the same stripped or not.
C7_BareOrJsonFenceIsStripped ==
    /\ (IsPost /\ last.called /\ last.outcome.kind = "text"
          /\ last.outcome.wrapper \in {"fence", "fence_json"}) =>
           last.analysis = ResultOn(last.outcome.r)
    /\ FenceFreeParsesAlike
C7_Witness ==
    /\ IsPost
    /\ last.called
    /\ last.outcome.wrapper = "fence_json"
    /\ last.result = "AssistantReply"
    /\ ReplyQuestions(last) # <<>>
    /\ last.analysis = json_loads(last.outcome.r).v

\* The prior questions the form of the page shown would submit.
PageQuestions == PriorQuestions(hidden_fields(page.html))

\* C8: a failed turn is reported in its response, and the response hands back
\* the conversation data submitted to it, the story, the context and the
\* pending prior questions, unchanged.
C8_FailureHandsBackTheTurn ==
    (IsPost /\ HasStoryAndContext(last.form)
       /\ last.result \in {"ConfigurationError", "ModelInteractionError"}) =>
        /\ page.html.api_key_error # <<>> \/ page.html.preview_html # <<>>
        /\ unescape(page.html.fields[user_story_field]) = last.form[user_story_field]
        /\ unescape(page.html.fields[context_field]) = last.form[context_field]
        /\ PageQuestions = PriorQuestions(last.form)

\* C9: after a successful turn the prior questions of the next form the page
\* submits are that reply's clarifying questions, in order, keyed question_0
\* to question_(n-1) without a gap, so that the scan visits each of them and
\* no other.
C9_LoopClosure ==
    (IsPost /\ last.via = "browser" /\ last.prev_result = "AssistantReply") =>
        /\ PriorQuestions(last.form) = last.prev_questions
        /\ {f \in DOMAIN last.form : f[1] = "question_"} =
               {question_field(k) : k \in 0..(Len(last.prev_questions) - 1)}
C9_Witness ==
    /\ IsPost
    /\ last.via = "browser"
    /\ last.prev_result = "AssistantReply"
    /\ last.prev_questions = << <<"Q2", "&", "?">>, <<"Q1?">> >>
    /\ PriorQuestions(last.form) = last.prev_questions

\* C10: a non-empty answer given in an earlier turn of a conversation whose
\* story and context stay unedited is still in the prompt of every later turn.
C10_EarlierAnswersStay ==
    (IsPost /\ last.via = "browser" /\ credential /\ last.status = 200) =>
        \A answer \in last.earlier : Contains(last.prompt, answer)

====
